---- MODULE Spec2Model ----
(***************************************************************************)
(* fiasko_bro: CodeValidator (src/fiasko_bro/code_validator.py).           *)
(*                                                                         *)
(* The class body defines the rule catalog and checks it once; __init__    *)
(* builds validator_arguments; validate() updates validator_arguments,     *)
(* runs the error groups in declaration order and, after the first group   *)
(* that leaves `errors` non-empty, the warning groups of the preceding     *)
(* groups.  A validator is an opaque callable: each invocation returns a   *)
(* Python value or raises.                                                 *)
(***************************************************************************)
EXTENDS Naturals, Sequences, FiniteSets, TLC

VARIABLES
    class_state,              \* "loading" | "defined" | "failed" (AssertionError in the class body)
    class_attributes,         \* the class's tables: _default_settings, blacklists, whitelists
    error_validator_groups,   \* OrderedDict: sequence of [name, validators]
    warning_validator_groups, \* dict: group name -> sequence of validators
    object_state,             \* per object: "none" | "constructed"
    validator_arguments,      \* per object: self.validator_arguments (a dict)
    frames,                   \* per caller: the running validate() call, position and locals
    histories,                \* history, per caller: the validator invocations of the current call
    results,                  \* per caller: <<>> while nothing was returned, <<errors>> once returned
    ncalls,                   \* number of validate() calls started
    constructed_arguments,    \* history, per object: validator_arguments as __init__ left it
    supplied,                 \* history, per object: the <<key, value>> pairs given to it as keywords
    helper,                   \* a call of a function of code_helpers.py: input and output
    inputs                    \* the sets the callers' inputs are drawn from

class_vars == <<class_state, class_attributes, error_validator_groups,
                warning_validator_groups>>

object_vars == <<object_state, validator_arguments, constructed_arguments, supplied>>

call_vars == <<frames, histories, results, ncalls>>

vars == <<class_vars, object_vars, call_vars, helper, inputs>>

\* The validator objects and the callers there may be.
Objects == {1, 2}

Callers == {1, 2}

\* Largest number of validate() calls made on the validator object.
MaxCalls == 2

(***************************************************************************)
(* Python values.  Every value of the argument bag is written as a string. *)
(***************************************************************************)
None == "None"

\* A handle whose truth value is False (an object with __bool__/__len__).
EmptyRepo == "empty_repo"

\* Python truthiness of the values a repository parameter takes.
Truthy(value) == value \notin {None, EmptyRepo}

EmptyDict == [k \in {} |-> None]

\* dict.update(other): keys of other replace or are added, whole values.
Update(d, other) ==
    [k \in DOMAIN d \cup DOMAIN other |-> IF k \in DOMAIN other THEN other[k] ELSE d[k]]

\* d[key] = value
SetItem(d, key, value) == Update(d, [k \in {key} |-> value])

\* The class attributes blacklists and whitelists, passed by reference.
blacklists == "CodeValidator.blacklists"

whitelists == "CodeValidator.whitelists"

\* The literal of lines 7-54.
BlacklistsTable ==
    [has_variables_from_blacklist |->
        <<"list", "lists", "input", "cnt", "data", "name", "load", "value",
          "object", "file", "result", "item", "num", "info", "n">>,
     has_no_commit_messages_from_blacklist |->
        <<"win", "commit", "commit#1", "fix", "minor edits", "update",
          "done", "first commit", "start", "refactor", "!", "bug fix",
          "corrected", "add files via upload", "test", "fixed",
          "minor bugfix", "minor bugfixes", "finished", "first commit",
          "fixes", "">>,
     has_no_directories_from_blacklist |->
        <<".idea", "__pycache__", ".vscode">>]

\* The literal of lines 56-119; the entries of is_pep8_fine are written
\* character by character.  Line 89-90 is one string, 'Order' 'Address'.
WhitelistsTable ==
    [has_no_short_variable_names |->
        <<"a", "b", "c", "x", "y", "x1", "x2", "y1", "y2", "_">>,
     has_no_calls_with_constants |->
        <<"pow", "exit", "round", "range", "enumerate", "time",
          "itemgetter", "get", "group", "replace", "combinations", "seek">>,
     is_snake_case |->
        <<"Session", "Base", "User", "OrderAddress">>,
     right_assignment_for_snake_case |->
        <<"Base">>,
     has_no_exit_calls_in_functions |->
        <<"main">>,
     is_pep8_fine |->
        <<<<"/", "m", "i", "g", "r", "a", "t", "i", "o", "n", "s", "/">>,
          <<"/", "a", "l", "e", "m", "b", "i", "c", "/">>,
          <<"m", "a", "n", "a", "g", "e", ".", "p", "y">>>>,
     has_no_encoding_declaration |->
        <<"/migrations/">>,
     has_no_local_imports |->
        <<"manage.py">>,
     has_local_var_named_as_global |->
        <<"settings.py">>,
     has_variables_from_blacklist |->
        <<"apps.py">>,
     has_no_extra_dockstrings_whitelist |->
        <<"/migrations/", "/alembic/">>]

_default_settings ==
    [readme_filename |-> "README.md",
     allowed_max_pep8_violations |-> "5",
     max_complexity |-> "7",
     minimum_name_length |-> "2",
     min_percent_of_another_language |-> "30",
     last_commits_to_check_amount |-> "5",
     tab_size |-> "4",
     functions_with_docstrings_percent_limit |-> "80",
     max_pep8_line_length |-> "100"]

(***************************************************************************)
(* What a validator invocation produces: a returned value, or a raise.     *)
(***************************************************************************)
PyValue(type, items) == [type |-> type, items |-> items]

Raise == PyValue("raise", <<>>)

\* The outcome of a given shape for validator `validator`.
Outcome(shape, validator) ==
    CASE shape = "none"   -> PyValue("NoneType", <<>>)
      [] shape = "list"   -> PyValue("list", <<validator, "detail">>)
      [] shape = "own"    -> PyValue("tuple", <<validator, "detail">>)
      [] shape = "same"   -> PyValue("tuple", <<"slug", "detail">>)
      [] shape = "triple" -> PyValue("tuple", <<validator, "detail", "extra">>)
      [] shape = "raise"  -> Raise

Shapes == {"none", "list", "own", "same", "triple", "raise"}

(***************************************************************************)
(* Catalogs a class body may define.                                       *)
(***************************************************************************)
Group(name, validators) == [name |-> name, validators |-> validators]

Catalog(errors, warnings) == [errors |-> errors, warnings |-> warnings]

\* Three groups; warnings on the first two (the shape of the shipped one).
CatalogA ==
    Catalog(<<Group("commits", <<"e1">>),
              Group("syntax", <<"e2", "e3">>),
              Group("general", <<"e4">>)>>,
            [commits |-> <<"w1">>, syntax |-> <<"w2", "w3">>])

\* An empty error group, a group without warnings, warnings on the last group.
CatalogB ==
    Catalog(<<Group("first", <<>>),
              Group("middle", <<"e1", "e2">>),
              Group("last", <<"e3">>)>>,
            [first |-> <<"w1">>, last |-> <<"w2">>])

\* A warning group that names no error group.
CatalogC ==
    Catalog(<<Group("commits", <<"e1">>)>>,
            [readme |-> <<"w1">>])

\* Two rules in the first group, one shared with the second group's warnings;
\* warnings on the second group only.
CatalogD ==
    Catalog(<<Group("readme", <<"e1", "e2">>),
              Group("encoding", <<"e3">>),
              Group("bom", <<"e4">>)>>,
            [encoding |-> <<"e1", "w1">>])

Catalogs == {CatalogA, CatalogB, CatalogC, CatalogD}

\* One error group of two rules with one warning rule: small enough for two
\* interleaved calls.
CatalogE ==
    Catalog(<<Group("commits", <<"e1", "e2">>)>>,
            [commits |-> <<"w1">>])

\* The catalog of the class body, lines 133-200.
ShippedCatalog ==
    Catalog(<<Group("commits", <<"has_more_commits_than_origin">>),
              Group("readme", <<"has_readme_file">>),
              Group("encoding", <<"are_sources_in_utf">>),
              Group("bom", <<"has_no_bom">>),
              Group("syntax", <<"has_no_syntax_errors">>),
              Group("general",
                    <<"has_no_directories_from_blacklist",
                      "is_pep8_fine",
                      "has_changed_readme",
                      "is_snake_case",
                      "is_mccabe_difficulty_ok",
                      "has_no_encoding_declaration",
                      "has_no_star_imports",
                      "has_no_local_imports",
                      "has_local_var_named_as_global",
                      "has_variables_from_blacklist",
                      "has_no_short_variable_names",
                      "has_no_range_from_zero",
                      "are_tabs_used_for_indentation",
                      "has_no_try_without_exception",
                      "has_frozen_requirements",
                      "has_no_vars_with_lambda",
                      "has_no_calls_with_constants",
                      "has_readme_in_single_language",
                      "has_no_urls_with_hardcoded_arguments",
                      "has_no_nonpythonic_empty_list_validations",
                      "has_no_extra_dockstrings",
                      "has_no_exit_calls_in_functions",
                      "has_no_libs_from_stdlib_in_requirements",
                      "has_no_lines_ends_with_semicolon",
                      "not_validates_response_status_by_comparing_to_200",
                      "has_no_mutable_default_arguments",
                      "has_no_slices_starts_from_zero",
                      "has_no_cast_input_result_to_str",
                      "has_no_return_with_parenthesis">>)>>,
            [commits |-> <<"has_no_commit_messages_from_blacklist">>,
             syntax |-> <<"has_indents_of_spaces",
                          "has_no_variables_that_shadow_default_names">>])

\* Every validator a catalog of `catalogs` names.
ValidatorsOf(catalogs) ==
    UNION {UNION {{c.errors[g].validators[r] : r \in DOMAIN c.errors[g].validators} :
                     g \in DOMAIN c.errors}
           \cup UNION {{c.warnings[n][r] : r \in DOMAIN c.warnings[n]} :
                          n \in DOMAIN c.warnings} :
           c \in catalogs}

GroupNames(groups) == {groups[i].name : i \in DOMAIN groups}

\* Faulty variant: the class body checks nothing.
AssertNothing(errors, warnings) == TRUE

\* The class body's loop, lines 202-203:
\* for name in warning_validator_groups: assert name in error_validator_groups.keys()
CatalogAssertion(errors, warnings) ==
    \A name \in DOMAIN warnings : name \in GroupNames(errors)

(***************************************************************************)
(* Input sets.                                                             *)
(***************************************************************************)
Kwargs(pairs) == [k \in {p[1] : p \in pairs} |-> (CHOOSE p \in pairs : p[1] = k)[2]]

\* Inputs that exercise the rule orchestration.
OrchestrationInputs ==
    [catalogs  |-> Catalogs,
     objects   |-> {1},
     callers   |-> {1},
     shapes    |-> Shapes,
     fallible  |-> ValidatorsOf(Catalogs),
     ctor      |-> {EmptyDict},
     kwargs    |-> {EmptyDict, Kwargs({<<"max_complexity", "3">>})},
     solution  |-> {"repoA"},
     original  |-> {None}]

\* Inputs that exercise the configuration merge.
ConfigurationInputs ==
    [catalogs  |-> Catalogs,
     objects   |-> {1},
     callers   |-> {1},
     shapes    |-> {"none", "own"},
     fallible  |-> ValidatorsOf(Catalogs),
     ctor      |-> {EmptyDict,
                    Kwargs({<<"max_complexity", "1">>}),
                    Kwargs({<<"solution_repo", "ctor_repo">>,
                            <<"original_repo", "ctor_original">>,
                            <<"whitelists", "ctor_whitelists">>})},
     kwargs    |-> {EmptyDict,
                    Kwargs({<<"max_complexity", "3">>}),
                    Kwargs({<<"blacklists", "user_blacklists">>,
                            <<"custom_option", "x">>})},
     solution  |-> {"repoA", "repoB"},
     original  |-> {None, EmptyRepo, "originA", "originB"}]

\* Inputs for the shipped catalog: the rules that may fail are the error
\* rules of commits and syntax, five rules of general (the first two, one
\* in the middle, the last two) and the three warning rules.
ShippedInputs ==
    [catalogs  |-> {ShippedCatalog},
     objects   |-> {1},
     callers   |-> {1},
     shapes    |-> {"none", "own"},
     fallible  |-> {"has_more_commits_than_origin",
                    "has_no_syntax_errors",
                    "has_no_directories_from_blacklist",
                    "is_pep8_fine",
                    "has_frozen_requirements",
                    "has_no_cast_input_result_to_str",
                    "has_no_return_with_parenthesis",
                    "has_no_commit_messages_from_blacklist",
                    "has_indents_of_spaces",
                    "has_no_variables_that_shadow_default_names"},
     ctor      |-> {EmptyDict},
     kwargs    |-> {EmptyDict},
     solution  |-> {"repoA"},
     original  |-> {None, "originA"}]

\* Inputs for two callers that use one validator object at the same time.
ConcurrentInputs ==
    [catalogs  |-> {CatalogE},
     objects   |-> {1},
     callers   |-> Callers,
     shapes    |-> {"none", "own"},
     fallible  |-> ValidatorsOf({CatalogE}),
     ctor      |-> {EmptyDict},
     kwargs    |-> {Kwargs({<<"max_complexity", "3">>}),
                    Kwargs({<<"max_complexity", "9">>})},
     solution  |-> {"repoA", "repoB"},
     original  |-> {None, "originA"}]

\* Inputs for two validator objects that are given different overrides.
ObjectsInputs ==
    [catalogs  |-> {CatalogE},
     objects   |-> Objects,
     callers   |-> {1},
     shapes    |-> {"none", "own"},
     fallible  |-> ValidatorsOf({CatalogE}),
     ctor      |-> {EmptyDict, Kwargs({<<"max_complexity", "3">>})},
     kwargs    |-> {EmptyDict, Kwargs({<<"max_complexity", "9">>}),
                    Kwargs({<<"tab_size", "8">>})},
     solution  |-> {"repoA"},
     original  |-> {None}]

\* Inputs for the runs to completion: rules pass, fail or raise.
CompletionInputs ==
    [catalogs  |-> {CatalogB, CatalogD},
     objects   |-> {1},
     callers   |-> {1},
     shapes    |-> {"none", "own", "raise"},
     fallible  |-> ValidatorsOf({CatalogB, CatalogD}),
     ctor      |-> {EmptyDict},
     kwargs    |-> {EmptyDict},
     solution  |-> {"repoA"},
     original  |-> {None}]

(***************************************************************************)
(* The call frame of validate().                                           *)
(***************************************************************************)
IdleFrame ==
    [pc |-> "idle", self |-> 0, solution_repo |-> None, original_repo |-> None,
     kwargs |-> EmptyDict, error_group_index |-> 0, warning_group_index |-> 0,
     caller |-> "none", group |-> <<>>, validator_index |-> 0,
     errors |-> <<>>, warnings |-> <<>>, group_errors |-> <<>>]

\* No function of code_helpers.py has been called.
HelperIdle == [pc |-> "none"]

(***************************************************************************)
(* code_helpers.py.  Paths and names are sequences of characters, so that  *)
(* `in' and startswith() are computed and not assumed.                     *)
(***************************************************************************)
\* Largest number of Python files of a repository.
MaxFiles == 3

\* Largest number of code units (graphs) of a file.
MaxGraphs == 2

\* An optional argument: {} is None, {v} is the value v.
Some(value) == {value}

\* x or []
OrEmptyList(optional) ==
    IF optional = {} THEN <<>> ELSE CHOOSE value \in optional : TRUE

\* Prefix test of a Python `in' that only looks at the start of the string.
IsPrefix(part, string) ==
    /\ Len(part) <= Len(string)
    /\ SubSeq(string, 1, Len(part)) = part

\* part in string, for two strings (line 17).
Contains(part, string) ==
    \E i \in 0..(Len(string) - Len(part)) :
        SubSeq(string, i + 1, i + Len(part)) = part

\* The inner for/break/else of lines 16-20: TRUE when the loop breaks.
IsWhitelisted(python_file_path, path_whitelist) ==
    \E j \in DOMAIN path_whitelist :
        Contains(path_whitelist[j], python_file_path)

\* The outer loop of lines 15-20, path by path in enumeration order.
RECURSIVE ValidatablePaths(_, _)
ValidatablePaths(python_file_paths, path_whitelist) ==
    IF python_file_paths = <<>>
    THEN <<>>
    ELSE LET python_file_path == Head(python_file_paths)
             rest == ValidatablePaths(Tail(python_file_paths), path_whitelist)
         IN  IF IsWhitelisted(python_file_path, path_whitelist)
             THEN rest
             ELSE <<python_file_path>> \o rest

\* What pep8 reports for one file: a too long line, and other offences.
FileErrors(content, max_line_length) ==
    content.other + (IF content.longest > max_line_length THEN 1 ELSE 0)

\* pep8style.check_files(paths).total_errors (lines 21-22).
RECURSIVE check_files(_, _, _)
check_files(paths, contents, max_line_length) ==
    IF paths = <<>>
    THEN 0
    ELSE FileErrors(contents[Head(paths)], max_line_length)
         + check_files(Tail(paths), contents, max_line_length)

\* The file paths of the repositories.
MigrationPath == <<"a", "/", "m", "i", "g", "r", "a", "t", "i", "o", "n", "s", "/", "m", ".", "p", "y">>

ManagePath == <<"m", "a", "n", "a", "g", "e", ".", "p", "y">>

TopMigrationPath == <<"m", "i", "g", "r", "a", "t", "i", "o", "n", "s", "/", "a", ".", "p", "y">>

PlainPath == <<"a", ".", "p", "y">>

Paths == {MigrationPath, ManagePath, TopMigrationPath, PlainPath}

\* What a file may hold: nothing to report, a line of 120 columns, another
\* offence.
CleanFile == [longest |-> 60, other |-> 0]

FileContents == {CleanFile, [longest |-> 120, other |-> 0],
                 [longest |-> 60, other |-> 1]}

\* The default of the parameter max_line_length (line 7) and the default
\* setting max_pep8_line_length (line 127).
LineLengths == {79, 100}

\* The values of path_whitelist: None, [], the is_pep8_fine whitelist, and a
\* whitelist that names every Python file.
PathWhitelists ==
    {{}, Some(<<>>), Some(WhitelistsTable.is_pep8_fine),
     Some(<<<<".", "p", "y">>>>)}

\* Sequences without repetition, of at most n members of a set.
RECURSIVE DistinctSeqs(_, _)
DistinctSeqs(set, n) ==
    IF n = 0
    THEN {<<>>}
    ELSE LET shorter == DistinctSeqs(set, n - 1)
             longest == {seq \in shorter : Len(seq) = n - 1}
             Fresh(seq) == {x \in set : \A i \in DOMAIN seq : seq[i] # x}
         IN  shorter \cup
             UNION {{Append(seq, x) : x \in Fresh(seq)} : seq \in longest}

Pep8Calls ==
    [pc : {"count_pep8_violations"},
     python_file_paths : DistinctSeqs(Paths, MaxFiles),
     contents : [Paths -> FileContents],
     max_line_length : LineLengths,
     path_whitelist : PathWhitelists]

\* 'If ' (line 34) and the label of line 35.
IfPrefix == <<"I", "f", " ">>

MainGuardLabel == <<"i", "f", " ", "_", "_", "n", "a", "m", "e", "_", "_", " ", "=", "=", " ", "\"", "_", "_", "m", "a", "i", "n", "_", "_", "\"">>

\* The entities of mccabe's graphs: a top-level if at line 1, functions
\* named Iff, f and If.
Entities == {<<"I", "f", " ", "1">>, <<"I", "f", "f">>, <<"f">>, <<"I", "f">>}

Complexities == {6, 7, 8}

Thresholds == {7, 8}

Graphs == [entity : Entities, complexity : Complexities]

\* visitor.graphs is a dict keyed by entity: no entity occurs twice.
GraphLists ==
    {graphs \in DistinctSeqs(Graphs, MaxGraphs) :
        \A i, j \in DOMAIN graphs :
            i # j => graphs[i].entity # graphs[j].entity}

McCabeCalls ==
    [pc : {"get_mccabe_violations_for_file"},
     graphs : GraphLists,
     max_complexity : Thresholds]

\* Strictly greater, where line 32 has >=.
Exceeds(complexity, max_complexity) == complexity > max_complexity

\* The test of line 32.
IsTooComplex(complexity, max_complexity) == complexity >= max_complexity

\* str.startswith (line 34).
StartsWith(string, prefix) ==
    /\ Len(string) >= Len(prefix)
    /\ SubSeq(string, 1, Len(prefix)) = prefix

\* Lines 33-35.
complex_function_name(graph) ==
    IF StartsWith(graph.entity, IfPrefix)
    THEN MainGuardLabel
    ELSE graph.entity

\* The loop of lines 31-36, graph by graph.
RECURSIVE McCabeViolations(_, _)
McCabeViolations(graphs, max_complexity) ==
    IF graphs = <<>>
    THEN <<>>
    ELSE LET graph == Head(graphs)
             rest == McCabeViolations(Tail(graphs), max_complexity)
         IN  IF IsTooComplex(graph.complexity, max_complexity)
             THEN <<complex_function_name(graph)>> \o rest
             ELSE rest

\* The <<key, value>> pairs of a keyword dict.
Pairs(kwargs) == {<<k, kwargs[k]>> : k \in DOMAIN kwargs}

\* The state after import: the class body is about to run, `call' is the
\* call of a function of code_helpers.py that is under way.
InitBoth(given, call) ==
    /\ class_state = "loading"
    /\ class_attributes = [_default_settings |-> _default_settings,
                           blacklists |-> BlacklistsTable,
                           whitelists |-> WhitelistsTable]
    /\ \E catalog \in given.catalogs :
          /\ error_validator_groups = catalog.errors
          /\ warning_validator_groups = catalog.warnings
    /\ object_state = [o \in Objects |-> "none"]
    /\ validator_arguments = [o \in Objects |-> EmptyDict]
    /\ frames = [t \in Callers |-> IdleFrame]
    /\ histories = [t \in Callers |-> <<>>]
    /\ results = [t \in Callers |-> <<>>]
    /\ ncalls = 0
    /\ constructed_arguments = [o \in Objects |-> EmptyDict]
    /\ supplied = [o \in Objects |-> {}]
    /\ helper = call
    /\ inputs = given

InitWith(given) == InitBoth(given, HelperIdle)

Init == InitWith(OrchestrationInputs)

InitCfg == InitWith(ConfigurationInputs)

InitShipped == InitWith(ShippedInputs)

InitConcurrent == InitWith(ConcurrentInputs)

InitObjects == InitWith(ObjectsInputs)

InitCompletion == InitWith(CompletionInputs)

\* A function of code_helpers.py has been called with some arguments.
InitHelpers ==
    \E call \in Pep8Calls \cup McCabeCalls : InitBoth(ConcurrentInputs, call)

(***************************************************************************)
(* The class body, lines 202-203.                                          *)
(***************************************************************************)
DefineClass ==
    /\ class_state = "loading"
    /\ class_state' = IF CatalogAssertion(error_validator_groups, warning_validator_groups)
                      THEN "defined" ELSE "failed"
    /\ UNCHANGED <<class_attributes, error_validator_groups, warning_validator_groups,
                   object_vars, call_vars, helper, inputs>>

(***************************************************************************)
(* __init__(self, **kwargs), lines 205-207.                                *)
(***************************************************************************)
\* Faulty variant: validator_arguments is the class's mapping itself, so
\* the update of line 207 writes into it.
DefaultsShared(default_settings, kwargs) == Update(default_settings, kwargs)

\* The class's _default_settings after __init__: line 206 copies it with
\* dict(...), so the update of line 207 leaves it as it was.
DefaultsAfterInit(default_settings, kwargs) == default_settings

Construct(o) ==
    /\ class_state = "defined"
    /\ object_state[o] = "none"
    /\ \E kwargs \in inputs.ctor :
          /\ validator_arguments' =
                [validator_arguments EXCEPT
                    ![o] = Update(class_attributes._default_settings, kwargs)]
          /\ class_attributes' =
                [class_attributes EXCEPT
                    !._default_settings = DefaultsAfterInit(@, kwargs)]
          /\ supplied' = [supplied EXCEPT ![o] = Pairs(kwargs)]
    /\ constructed_arguments' =
          [constructed_arguments EXCEPT ![o] = validator_arguments'[o]]
    /\ object_state' = [object_state EXCEPT ![o] = "constructed"]
    /\ UNCHANGED <<class_state, error_validator_groups, warning_validator_groups,
                   call_vars, helper, inputs>>

(***************************************************************************)
(* validate(self, solution_repo, original_repo=None, **kwargs):            *)
(* lines 234-241, up to the first iteration of the loop over error groups. *)
(***************************************************************************)
\* Lines 238-239: if original_repo: self.validator_arguments['original_repo'] = ...
SetOriginalRepo(arguments, original_repo) ==
    IF Truthy(original_repo)
    THEN SetItem(arguments, "original_repo", original_repo)
    ELSE arguments

\* Lines 234-239.
ArgumentsForCall(arguments, solution_repo, original_repo, kwargs) ==
    SetOriginalRepo(
        SetItem(SetItem(SetItem(Update(arguments, kwargs),
                                "whitelists", whitelists),
                        "blacklists", blacklists),
                "solution_repo", solution_repo),
        original_repo)

Validate(t, o) ==
    /\ object_state[o] = "constructed"
    /\ frames[t].pc \in {"idle", "returned", "raised"}
    /\ ncalls < MaxCalls
    /\ \E solution_repo \in inputs.solution, original_repo \in inputs.original,
          kwargs \in inputs.kwargs :
          /\ validator_arguments' =
                [validator_arguments EXCEPT
                    ![o] = ArgumentsForCall(@, solution_repo, original_repo, kwargs)]
          /\ frames' = [frames EXCEPT
                ![t] = [IdleFrame EXCEPT !.pc = "error_groups",
                                         !.self = o,
                                         !.solution_repo = solution_repo,
                                         !.original_repo = original_repo,
                                         !.kwargs = kwargs,
                                         !.error_group_index = 1]]
          /\ supplied' = [supplied EXCEPT ![o] = @ \cup Pairs(kwargs)]
    /\ histories' = [histories EXCEPT ![t] = <<>>]
    /\ results' = [results EXCEPT ![t] = <<>>]
    /\ ncalls' = ncalls + 1
    /\ UNCHANGED <<class_vars, object_state, constructed_arguments, helper, inputs>>

(***************************************************************************)
(* _is_successful_validation, lines 209-211.                               *)
(***************************************************************************)
\* Faulty variant: only None counts as success.
IsNoneResult(validation_result) ==
    validation_result.type = "NoneType"

_is_successful_validation(validation_result) ==
    validation_result.type # "tuple"

\* Faulty variant: only a tuple of two elements is appended.
AppendIfPair(errors, validation_result) ==
    IF validation_result.type = "tuple" /\ Len(validation_result.items) = 2
    THEN Append(errors, validation_result)
    ELSE errors

\* Faulty variant: a record equal to one already collected is dropped.
AppendUnlessPresent(errors, validation_result) ==
    IF validation_result.type = "tuple"
       /\ \A i \in DOMAIN errors : errors[i] # validation_result
    THEN Append(errors, validation_result)
    ELSE errors

\* Lines 217-218: if not self._is_successful_validation(...): errors.append(...)
AppendIfFailed(errors, validation_result) ==
    IF ~_is_successful_validation(validation_result)
    THEN Append(errors, validation_result)
    ELSE errors

\* Line 216: validator(**arguments) is called outside any try block, so a
\* raise leaves _run_validator_group and validate().
\* Faulty variant: the raise is caught and the validator counts as passed.
Swallowed(outcome) == FALSE

Propagates(outcome) == outcome = Raise

\* Line 247: if errors:
HasErrors(errors) == errors # <<>>

\* Faulty variant: the new records are put in front.
Prepend(errors, more) == more \o errors

\* Lines 243, 227 and 248: errors += ..., warnings += ...
Extend(errors, more) == errors \o more

\* Faulty variant: the sweep never recognises the failed group.
NeverFailedGroup(error_group_name, failed_error_group_name) == FALSE

\* Line 225: if error_group_name == failed_error_group_name:
IsFailedGroup(error_group_name, failed_error_group_name) ==
    error_group_name = failed_error_group_name

\* Faulty variant: the warning rules of the group are run a second time.
TwiceWarningGroup(error_group_name) ==
    IF error_group_name \in DOMAIN warning_validator_groups
    THEN warning_validator_groups[error_group_name]
         \o warning_validator_groups[error_group_name]
    ELSE <<>>

\* Faulty variant: the lookup always misses.
NoWarningGroup(error_group_name) == <<>>

\* Line 228: self.warning_validator_groups.get(error_group_name, [])
WarningGroup(error_group_name) ==
    IF error_group_name \in DOMAIN warning_validator_groups
    THEN warning_validator_groups[error_group_name]
    ELSE <<>>

(***************************************************************************)
(* validate(), lines 242-246 and 253: the loop over the error groups.      *)
(***************************************************************************)
ErrorGroupsLoop(t) ==
    /\ frames[t].pc = "error_groups"
    /\ IF frames[t].error_group_index <= Len(error_validator_groups)
       THEN /\ frames' = [frames EXCEPT ![t] = [@ EXCEPT
                   !.pc = "run_group",
                   !.caller = "error",
                   !.group = error_validator_groups[frames[t].error_group_index].validators,
                   !.validator_index = 1,
                   !.group_errors = <<>>]]
            /\ UNCHANGED results
       ELSE /\ frames' = [frames EXCEPT ![t] = [@ EXCEPT !.pc = "returned"]]
            /\ results' = [results EXCEPT ![t] = <<frames[t].errors>>]
    /\ UNCHANGED <<class_vars, object_vars, histories, ncalls, helper, inputs>>

(***************************************************************************)
(* _run_validator_group, lines 215-218: one iteration, one invocation.     *)
(***************************************************************************)
\* What a validator may produce: any shape of the input set, or, for a
\* validator the input set makes pass, None.
ShapesFor(validator) ==
    IF validator \in inputs.fallible THEN inputs.shapes ELSE {"none"}

\* The invocation: the validator is called with self.validator_arguments
\* as it is at the time of the call.
Invocation(t, group_index, outcome) ==
    [kind |-> frames[t].caller,
     group_index |-> group_index,
     validator_index |-> frames[t].validator_index,
     validator |-> frames[t].group[frames[t].validator_index],
     arguments |-> validator_arguments[frames[t].self],
     outcome |-> outcome]

RunValidator(t) ==
    /\ frames[t].pc = "run_group"
    /\ frames[t].validator_index <= Len(frames[t].group)
    /\ \E shape \in ShapesFor(frames[t].group[frames[t].validator_index]) :
          LET outcome == Outcome(shape, frames[t].group[frames[t].validator_index])
              group_index == IF frames[t].caller = "error"
                             THEN frames[t].error_group_index
                             ELSE frames[t].warning_group_index
          IN  /\ histories' = [histories EXCEPT
                    ![t] = Append(@, Invocation(t, group_index, outcome))]
              /\ IF Propagates(outcome)
                 THEN frames' = [frames EXCEPT ![t] = [@ EXCEPT !.pc = "raised"]]
                 ELSE frames' = [frames EXCEPT ![t] = [@ EXCEPT
                         !.group_errors = AppendIfFailed(frames[t].group_errors, outcome),
                         !.validator_index = frames[t].validator_index + 1]]
    /\ UNCHANGED <<class_vars, object_vars, results, ncalls, helper, inputs>>

(***************************************************************************)
(* _run_validator_group returns (line 219) to its caller: line 243 with    *)
(* the test of line 247, or line 227.                                      *)
(***************************************************************************)
GroupReturn(t) ==
    /\ frames[t].pc = "run_group"
    /\ frames[t].validator_index > Len(frames[t].group)
    /\ IF frames[t].caller = "error"
       THEN LET errors == Extend(frames[t].errors, frames[t].group_errors)
            IN  IF HasErrors(errors)
                THEN frames' = [frames EXCEPT ![t] = [@ EXCEPT
                                    !.pc = "warning_groups",
                                    !.errors = errors,
                                    !.warnings = <<>>,
                                    !.warning_group_index = 1,
                                    !.caller = "none",
                                    !.group = <<>>,
                                    !.validator_index = 0,
                                    !.group_errors = <<>>]]
                ELSE frames' = [frames EXCEPT ![t] = [@ EXCEPT
                                    !.pc = "error_groups",
                                    !.errors = errors,
                                    !.error_group_index = frames[t].error_group_index + 1,
                                    !.caller = "none",
                                    !.group = <<>>,
                                    !.validator_index = 0,
                                    !.group_errors = <<>>]]
       ELSE frames' = [frames EXCEPT ![t] = [@ EXCEPT
                           !.pc = "warning_groups",
                           !.warnings = Extend(frames[t].warnings, frames[t].group_errors),
                           !.warning_group_index = frames[t].warning_group_index + 1,
                           !.caller = "none",
                           !.group = <<>>,
                           !.validator_index = 0,
                           !.group_errors = <<>>]]
    /\ UNCHANGED <<class_vars, object_vars, histories, results, ncalls, helper, inputs>>

(***************************************************************************)
(* _run_warning_validators_until, lines 223-231, and lines 248-252 of      *)
(* validate(): errors += warnings; return errors.                          *)
(***************************************************************************)
WarningGroupsLoop(t) ==
    /\ frames[t].pc = "warning_groups"
    /\ LET failed_error_group_name ==
               error_validator_groups[frames[t].error_group_index].name
           exhausted == frames[t].warning_group_index > Len(error_validator_groups)
       IN  IF \/ exhausted
              \/ IsFailedGroup(error_validator_groups[frames[t].warning_group_index].name,
                               failed_error_group_name)
           THEN /\ frames' = [frames EXCEPT ![t] = [@ EXCEPT
                       !.pc = "returned",
                       !.errors = Extend(frames[t].errors, frames[t].warnings)]]
                /\ results' = [results EXCEPT
                       ![t] = <<Extend(frames[t].errors, frames[t].warnings)>>]
           ELSE /\ frames' = [frames EXCEPT ![t] = [@ EXCEPT
                       !.pc = "run_group",
                       !.caller = "warning",
                       !.group = WarningGroup(
                           error_validator_groups[frames[t].warning_group_index].name),
                       !.validator_index = 1,
                       !.group_errors = <<>>]]
                /\ UNCHANGED results
    /\ UNCHANGED <<class_vars, object_vars, histories, ncalls, helper, inputs>>

\* A step of CodeValidator: the class body, a construction, or a step of a
\* caller's validate() call.
ValidatorNext ==
    \/ DefineClass
    \/ \E o \in inputs.objects : Construct(o)
    \/ \E t \in inputs.callers, o \in inputs.objects : Validate(t, o)
    \/ \E t \in inputs.callers : ErrorGroupsLoop(t)
    \/ \E t \in inputs.callers : RunValidator(t)
    \/ \E t \in inputs.callers : GroupReturn(t)
    \/ \E t \in inputs.callers : WarningGroupsLoop(t)

Next == ValidatorNext

Spec == Init /\ [][Next]_vars

SpecCfg == InitCfg /\ [][Next]_vars

SpecShipped == InitShipped /\ [][Next]_vars

\* Two callers; their validate() calls interleave between any two steps.
SpecConcurrent == InitConcurrent /\ [][Next]_vars

\* A step of a validate() call that is under way.
CallStep ==
    \E t \in inputs.callers :
        ErrorGroupsLoop(t) \/ RunValidator(t) \/ GroupReturn(t) \/ WarningGroupsLoop(t)

\* validate() is synchronous: once called, the interpreter keeps executing
\* it while it has a step to take.
SpecCompletion == InitCompletion /\ [][Next]_vars /\ WF_vars(CallStep)

\* Two validator objects used in turn by one caller.
SpecObjects == InitObjects /\ [][Next]_vars

(***************************************************************************)
(* The functions of code_helpers.py, each run from its call to its return. *)
(***************************************************************************)
count_pep8_violations ==
    /\ helper.pc = "count_pep8_violations"
    /\ LET path_whitelist == OrEmptyList(helper.path_whitelist)
           validatable_paths ==
               ValidatablePaths(helper.python_file_paths, path_whitelist)
       IN  helper' = [helper EXCEPT !.pc = "returned"] @@
                     [function |-> "count_pep8_violations",
                      validatable_paths |-> validatable_paths,
                      total_errors |-> check_files(validatable_paths,
                                                   helper.contents,
                                                   helper.max_line_length)]
    /\ UNCHANGED <<class_vars, object_vars, call_vars, inputs>>

get_mccabe_violations_for_file ==
    /\ helper.pc = "get_mccabe_violations_for_file"
    /\ helper' = [helper EXCEPT !.pc = "returned"] @@
                 [function |-> "get_mccabe_violations_for_file",
                  violations |-> McCabeViolations(helper.graphs,
                                                  helper.max_complexity)]
    /\ UNCHANGED <<class_vars, object_vars, call_vars, inputs>>

HelperNext ==
    \/ count_pep8_violations
    \/ get_mccabe_violations_for_file

SpecHelpers == InitHelpers /\ [][HelperNext]_vars

(***************************************************************************)
(* The single-caller properties speak of caller 1 and of object 1.         *)
(***************************************************************************)
frame == frames[1]

calls == histories[1]

result == results[1]

(***************************************************************************)
(* Vocabulary of the properties, over the history of invocations.          *)
(***************************************************************************)
\* A returned value that is a violation record.
IsViolation(value) == value.type = "tuple"

\* A returned value that is a 2-element ordered pair.
IsPair(value) == value.type = "tuple" /\ Len(value.items) = 2

Min(S) == CHOOSE x \in S : \A y \in S : x <= y

RECURSIVE Flatten(_)
Flatten(seqs) ==
    IF Len(seqs) = 0 THEN <<>> ELSE Head(seqs) \o Flatten(Tail(seqs))

Outcomes(invocations) == [i \in 1..Len(invocations) |-> invocations[i].outcome]

\* The indices of the invocations of validator number r of group g.
InvocationsOf(kind, g, r) ==
    {i \in DOMAIN calls : /\ calls[i].kind = kind
                          /\ calls[i].group_index = g
                          /\ calls[i].validator_index = r}

\* The violation records validator r of group g returned, in time order.
ViolationsOf(kind, g, r) ==
    LET Test(e) == /\ e.kind = kind /\ e.group_index = g /\ e.validator_index = r
                   /\ IsViolation(e.outcome)
    IN  Outcomes(SelectSeq(calls, Test))

\* The validators the catalog declares for group g.
Declared(kind, g) ==
    IF kind = "error"
    THEN error_validator_groups[g].validators
    ELSE IF error_validator_groups[g].name \in DOMAIN warning_validator_groups
         THEN warning_validator_groups[error_validator_groups[g].name]
         ELSE <<>>

\* The violation records of group g, in rule declaration order.
GroupViolations(kind, g) ==
    Flatten([r \in 1..Len(Declared(kind, g)) |-> ViolationsOf(kind, g, r)])

\* The violation records of groups 1..n, in group declaration order.
ViolationsUpTo(kind, n) ==
    Flatten([g \in 1..n |-> GroupViolations(kind, g)])

\* The error groups one of whose error rules produced a violation.
FailedGroups ==
    {calls[i].group_index : i \in {j \in DOMAIN calls : /\ calls[j].kind = "error"
                                                        /\ IsViolation(calls[j].outcome)}}

Returned == frame.pc = "returned"

(***************************************************************************)
(* C1: when group i is the first error group to produce a violation,       *)
(* validate() returns exactly the violations of the error rules of groups  *)
(* 1..i followed by those of the warning rules of groups 1..i-1, every one *)
(* of these rules having been run; nothing of a later group and no warning *)
(* of group i is in it.                                                    *)
(***************************************************************************)
C1_ShortCircuit ==
    (Returned /\ FailedGroups # {}) =>
        LET i == Min(FailedGroups)
        IN  /\ result = <<ViolationsUpTo("error", i) \o ViolationsUpTo("warning", i - 1)>>
            /\ \A g \in 1..i : \A r \in 1..Len(Declared("error", g)) :
                  InvocationsOf("error", g, r) # {}
            /\ \A g \in 1..(i - 1) : \A r \in 1..Len(Declared("warning", g)) :
                  InvocationsOf("warning", g, r) # {}

\* The last group failed, and warnings of two preceding groups are in the result.
C1_Witness ==
    /\ Returned
    /\ FailedGroups = {3}
    /\ ViolationsUpTo("warning", 1) # <<>>
    /\ ViolationsUpTo("warning", 2) # ViolationsUpTo("warning", 1)

(***************************************************************************)
(* C2: when no error group produces a violation, validate() returns the    *)
(* empty list and no warning rule was run.                                 *)
(***************************************************************************)
C2_CleanPass ==
    (Returned /\ FailedGroups = {}) =>
        /\ result = << <<>> >>
        /\ \A i \in DOMAIN calls : calls[i].kind # "warning"

\* A clean pass of a catalog with warning rules; one rule returned a non-tuple.
C2_Witness ==
    /\ Returned
    /\ FailedGroups = {}
    /\ DOMAIN warning_validator_groups # {}
    /\ Len(calls) = 4
    /\ \E i \in DOMAIN calls : calls[i].outcome.type = "list"

(***************************************************************************)
(* C3: the returned list is in invocation order, and invocations go: error *)
(* rules first, by group then by rule; warning rules after every error     *)
(* rule, by group then by rule.                                            *)
(***************************************************************************)
Precedes(a, b) ==
    \/ a.kind = "error" /\ b.kind = "warning"
    \/ /\ a.kind = b.kind
       /\ \/ a.group_index < b.group_index
          \/ /\ a.group_index = b.group_index
             /\ a.validator_index < b.validator_index

C3_Order ==
    /\ \A i, j \in DOMAIN calls : i < j => Precedes(calls[i], calls[j])
    /\ Returned =>
          LET Test(e) == IsViolation(e.outcome)
          IN  result = <<Outcomes(SelectSeq(calls, Test))>>

\* Two errors of one group and warnings of two groups, all distinguishable.
C3_Witness ==
    /\ Returned
    /\ Len(result[1]) >= 4
    /\ \A i, j \in DOMAIN result[1] : i # j => result[1][i] # result[1][j]
    /\ \E i, j \in DOMAIN calls :
          /\ calls[i].kind = "warning" /\ calls[j].kind = "warning"
          /\ calls[i].group_index # calls[j].group_index
          /\ IsViolation(calls[i].outcome) /\ IsViolation(calls[j].outcome)

(***************************************************************************)
(* C6 as stated: an invocation adds its returned value to the records of   *)
(* its group if and only if the value is a 2-element ordered pair; any     *)
(* other value, a tuple of another length included, adds nothing.          *)
(***************************************************************************)
\* The step is one invocation, and the validator returned a value.
InvokedAndReturned ==
    /\ frame.pc = "run_group"
    /\ Len(calls') = Len(calls) + 1
    /\ calls'[Len(calls')].outcome # Raise

\* The value the invocation of this step returned.
ReturnedValue == calls'[Len(calls')].outcome

C6_RecordedIffPair ==
    [][InvokedAndReturned =>
          IF IsPair(ReturnedValue)
          THEN frame'.group_errors = Append(frame.group_errors, ReturnedValue)
          ELSE frame'.group_errors = frame.group_errors]_vars

(***************************************************************************)
(* C6 as amended: an invocation adds its returned value to the records of  *)
(* its group if and only if the value is a tuple, of any length; every     *)
(* value that is not a tuple adds nothing.                                 *)
(***************************************************************************)
C6_RecordedIffTuple ==
    [][InvokedAndReturned =>
          IF ReturnedValue.type = "tuple"
          THEN frame'.group_errors = Append(frame.group_errors, ReturnedValue)
          ELSE frame'.group_errors = frame.group_errors]_vars

\* A 3-tuple is in the returned list, and a 2-element list was returned by a rule.
C6_Witness ==
    /\ Returned
    /\ \E i \in DOMAIN result[1] : Len(result[1][i].items) = 3
    /\ \E i \in DOMAIN calls : calls[i].outcome.type = "list"

(***************************************************************************)
(* C7: once group i is the first error group with a violation, no error    *)
(* rule of a group after i is run and no warning rule of group i or of a   *)
(* later group is run; after the error rules only warning rules run.       *)
(***************************************************************************)
C7_NothingPastFailedGroup ==
    FailedGroups # {} =>
        LET i == Min(FailedGroups)
        IN  /\ \A k \in DOMAIN calls :
                  /\ calls[k].kind = "error" => calls[k].group_index <= i
                  /\ calls[k].kind = "warning" => calls[k].group_index < i
            /\ \A j, k \in DOMAIN calls :
                  (j < k /\ calls[j].kind = "warning") => calls[k].kind = "warning"

\* The second of three groups failed; the first group's warning rule has run.
C7_Witness ==
    /\ Returned
    /\ FailedGroups = {2}
    /\ Len(error_validator_groups) = 3
    /\ \E k \in DOMAIN calls : calls[k].kind = "warning"
    /\ Declared("warning", 2) # <<>>

(***************************************************************************)
(* C8: every rule of an evaluated group is run exactly once, also after an *)
(* earlier rule of the group produced a violation; each violating rule     *)
(* contributes one record, equal records are all kept.                     *)
(***************************************************************************)
\* The groups the run has gone through completely.
EvaluatedGroups(kind) ==
    {g \in 1..Len(error_validator_groups) :
        \/ \E i \in DOMAIN calls : calls[i].kind = kind /\ calls[i].group_index = g}

ViolatingInvocations(kind, g) ==
    {i \in DOMAIN calls : /\ calls[i].kind = kind
                          /\ calls[i].group_index = g
                          /\ IsViolation(calls[i].outcome)}

AllViolatingInvocations ==
    {i \in DOMAIN calls : IsViolation(calls[i].outcome)}

C8_NoShortCircuitInGroup ==
    /\ \A i, j \in DOMAIN calls :
          (/\ calls[i].kind = calls[j].kind
           /\ calls[i].group_index = calls[j].group_index
           /\ calls[i].validator_index = calls[j].validator_index) => i = j
    /\ Returned =>
          /\ \A kind \in {"error", "warning"} : \A g \in EvaluatedGroups(kind) :
                \A r \in 1..Len(Declared(kind, g)) :
                    Cardinality(InvocationsOf(kind, g, r)) = 1
          /\ Len(result[1]) = Cardinality(AllViolatingInvocations)
    /\ frame.pc = "run_group" =>
          Len(frame.group_errors) =
              Cardinality(ViolatingInvocations(
                  frame.caller,
                  IF frame.caller = "error" THEN frame.error_group_index
                                            ELSE frame.warning_group_index))

\* Both rules of a group returned the same record and both records were returned.
C8_Witness ==
    /\ Returned
    /\ \E i, j \in DOMAIN calls :
          /\ i < j
          /\ calls[i].kind = "error" /\ calls[j].kind = "error"
          /\ calls[i].group_index = calls[j].group_index
          /\ IsViolation(calls[i].outcome)
          /\ calls[i].outcome = calls[j].outcome
    /\ \E i, j \in DOMAIN result[1] : i # j /\ result[1][i] = result[1][j]

(***************************************************************************)
(* C9: every key of the warning-group mapping is a key of the error-group  *)
(* mapping once the class is defined; a catalog that breaks this fails in  *)
(* the class body, and then no object is built and no validate() starts.   *)
(***************************************************************************)
WarningKeysAreErrorKeys ==
    DOMAIN warning_validator_groups \subseteq GroupNames(error_validator_groups)

C9_CatalogCheckedAtDefinition ==
    /\ class_state = "defined" => WarningKeysAreErrorKeys
    /\ (class_state # "loading" /\ ~WarningKeysAreErrorKeys) => class_state = "failed"
    /\ ~WarningKeysAreErrorKeys =>
          /\ \A o \in Objects : object_state[o] = "none"
          /\ ncalls = 0
          /\ frame.pc = "idle"
          /\ calls = <<>>

\* The class body failed on a catalog whose warning group names no error group.
C9_Witness ==
    /\ class_state = "failed"
    /\ ~WarningKeysAreErrorKeys

(***************************************************************************)
(* C10: a rule that raises ends the call: the raise is the last invocation *)
(* of the call, validate() is left by the raise and returns no list.       *)
(***************************************************************************)
C10_FaultPropagates ==
    /\ \A i \in DOMAIN calls :
          calls[i].outcome = Raise =>
              /\ i = Len(calls)
              /\ frame.pc = "raised"
              /\ result = <<>>
    /\ frame.pc = "raised" =>
          /\ calls # <<>>
          /\ calls[Len(calls)].outcome = Raise
          /\ result = <<>>

\* A warning rule raised after errors had been collected.
C10_Witness ==
    /\ frame.pc = "raised"
    /\ frame.caller = "warning"
    /\ frame.errors # <<>>
    /\ Len(calls) >= 3

(***************************************************************************)
(* C4: from the second validate() call on, every rule receives for each    *)
(* option the value of that call's overrides, or else the value the        *)
(* configuration had before the first call; an option neither gives is not *)
(* in the argument bag.                                                    *)
(***************************************************************************)
ReservedKeys == {"solution_repo", "original_repo", "blacklists", "whitelists"}

\* The options of the call as a fresh merge gives them.
FreshMerge == Update(constructed_arguments[1], frame.kwargs)

C4_NoOverrideLeak ==
    ncalls >= 2 =>
        \A i \in DOMAIN calls :
            LET received == calls[i].arguments
            IN  /\ (DOMAIN received) \ ReservedKeys = (DOMAIN FreshMerge) \ ReservedKeys
                /\ \A k \in (DOMAIN FreshMerge) \ ReservedKeys :
                      received[k] = FreshMerge[k]

(***************************************************************************)
(* C5: every rule receives the class's blacklists and whitelists tables    *)
(* and the solution_repo of the call, and an original_repo entry only      *)
(* when it is the original_repo of the call, whatever the caller gave      *)
(* under these names at construction or as overrides.                      *)
(***************************************************************************)
C5_ReservedKeysWin ==
    \A i \in DOMAIN calls :
        LET received == calls[i].arguments
        IN  /\ "blacklists" \in DOMAIN received /\ received["blacklists"] = blacklists
            /\ "whitelists" \in DOMAIN received /\ received["whitelists"] = whitelists
            /\ "solution_repo" \in DOMAIN received
            /\ received["solution_repo"] = frame.solution_repo
            /\ "original_repo" \in DOMAIN received =>
                  received["original_repo"] = frame.original_repo

(***************************************************************************)
(* C11: with the shipped catalog, when commits, readme, encoding, bom and  *)
(* syntax pass and exactly one rule of general fails, validate() returns   *)
(* that one error, then every violation of the commits warning rule, then  *)
(* every violation of the two syntax warning rules, and nothing else.      *)
(***************************************************************************)
\* The invocations of error rules that returned a violation.
ErrorFailures ==
    {i \in DOMAIN calls : calls[i].kind = "error" /\ IsViolation(calls[i].outcome)}

\* The violations the warning rule named `validator` returned.
WarningViolationsOf(validator) ==
    LET Test(e) == /\ e.kind = "warning" /\ e.validator = validator
                   /\ IsViolation(e.outcome)
    IN  Outcomes(SelectSeq(calls, Test))

C11_ShippedGeneralFailure ==
    (/\ Returned
     /\ error_validator_groups = ShippedCatalog.errors
     /\ warning_validator_groups = ShippedCatalog.warnings
     /\ Cardinality(ErrorFailures) = 1
     /\ \A i \in ErrorFailures : calls[i].group_index = 6) =>
        LET failure == CHOOSE i \in ErrorFailures : TRUE
        IN  /\ result = << <<calls[failure].outcome>>
                           \o WarningViolationsOf("has_no_commit_messages_from_blacklist")
                           \o WarningViolationsOf("has_indents_of_spaces")
                           \o WarningViolationsOf(
                                  "has_no_variables_that_shadow_default_names") >>
            /\ \A validator \in {"has_no_commit_messages_from_blacklist",
                                 "has_indents_of_spaces",
                                 "has_no_variables_that_shadow_default_names"} :
                  \E i \in DOMAIN calls : /\ calls[i].kind = "warning"
                                          /\ calls[i].validator = validator

\* One rule in the middle of general failed and the three warning rules did.
C11_Witness ==
    /\ Returned
    /\ Cardinality(ErrorFailures) = 1
    /\ \E i \in ErrorFailures : /\ calls[i].group_index = 6
                                /\ calls[i].validator = "has_frozen_requirements"
    /\ Len(result[1]) = 4
    /\ Len(calls) = 37

(***************************************************************************)
(* C12: when the first error group produces a violation, the result is     *)
(* that group's error violations alone and no warning rule is run.         *)
(***************************************************************************)
C12_FirstGroupFails ==
    (Returned /\ 1 \in FailedGroups) =>
        /\ \A i \in DOMAIN calls : calls[i].kind = "error" /\ calls[i].group_index = 1
        /\ Len(calls) = Len(error_validator_groups[1].validators)
        /\ LET Test(value) == IsViolation(value)
           IN  result = <<SelectSeq(Outcomes(calls), Test)>>

\* The first group failed in a catalog that has a warning rule for it.
C12_Witness ==
    /\ Returned
    /\ 1 \in FailedGroups
    /\ Declared("warning", 1) # <<>>
    /\ Len(error_validator_groups) > 1

(***************************************************************************)
(* C13: every rule of a validate() call receives an argument bag that      *)
(* holds every default key, with the override given for it to this object  *)
(* at construction or in this call, else with the default value; every     *)
(* other override key of the call, with the whole value given; and the     *)
(* keys solution_repo, blacklists and whitelists.                          *)
(***************************************************************************)
\* The keys of the bag, whatever their values.
BagHasItsKeys(received) ==
    /\ DOMAIN _default_settings \subseteq DOMAIN received
    /\ DOMAIN frame.kwargs \subseteq DOMAIN received
    /\ {"solution_repo", "blacklists", "whitelists"} \subseteq DOMAIN received

C13_ArgumentBag ==
    \A i \in DOMAIN calls :
        LET received == calls[i].arguments
        IN  /\ BagHasItsKeys(received)
            /\ \A k \in DOMAIN _default_settings :
                  received[k] = IF k \in DOMAIN frame.kwargs
                                THEN frame.kwargs[k]
                                ELSE constructed_arguments[1][k]
            /\ \A k \in (DOMAIN frame.kwargs) \ ReservedKeys :
                  received[k] = frame.kwargs[k]

(***************************************************************************)
(* C14: when validate() calls of two callers interleave, also on one       *)
(* validator object, every rule run for a caller receives that caller's    *)
(* solution_repo, original_repo and overrides, never the other caller's.   *)
(***************************************************************************)
ReceivesOwnInputs(t) ==
    \A i \in DOMAIN histories[t] :
        LET received == histories[t][i].arguments
        IN  /\ received["solution_repo"] = frames[t].solution_repo
            /\ Truthy(frames[t].original_repo) =>
                  received["original_repo"] = frames[t].original_repo
            /\ \A k \in (DOMAIN frames[t].kwargs) \ ReservedKeys :
                  received[k] = frames[t].kwargs[k]

C14_NoSharedState == \A t \in Callers : ReceivesOwnInputs(t)

(***************************************************************************)
(* Vocabulary of the properties of code_helpers.py.                        *)
(***************************************************************************)
\* part is a substring of string: some slice of string equals it.
Occurs(part, string) ==
    \E i, j \in 1..(Len(string) + 1) : SubSeq(string, i, j - 1) = part

HelperReturned(function) ==
    /\ helper.pc = "returned"
    /\ helper.function = function

\* The entries of the whitelist given to the call; none when it was None.
WhitelistEntries ==
    UNION {{whitelist[i] : i \in DOMAIN whitelist} :
           whitelist \in helper.path_whitelist}

MigrationsPart == <<"/", "m", "i", "g", "r", "a", "t", "i", "o", "n", "s", "/">>

\* The files as they would be with nothing to report under /migrations/.
WithCleanMigrations(contents) ==
    [path \in DOMAIN contents |->
        IF Occurs(MigrationsPart, path) THEN CleanFile ELSE contents[path]]

(***************************************************************************)
(* C15: count_pep8_violations submits a path to the style checker exactly  *)
(* when no entry of path_whitelist is a substring of it, in enumeration    *)
(* order; with the is_pep8_fine whitelist a path containing /migrations/   *)
(* is not submitted and the count does not depend on what that file holds. *)
(***************************************************************************)
C15_WhitelistFilter ==
    HelperReturned("count_pep8_violations") =>
        LET Checked(path) == \A part \in WhitelistEntries : ~Occurs(part, path)
            submitted == helper.validatable_paths
        IN  /\ submitted = SelectSeq(helper.python_file_paths, Checked)
            /\ helper.path_whitelist = Some(WhitelistsTable.is_pep8_fine) =>
                  /\ \A i \in DOMAIN submitted :
                        ~Occurs(MigrationsPart, submitted[i])
                  /\ helper.total_errors =
                        check_files(submitted,
                                    WithCleanMigrations(helper.contents),
                                    helper.max_line_length)

\* A file under /migrations/ with something to report is enumerated with the
\* is_pep8_fine whitelist, another file is submitted and counted.
C15_Witness ==
    /\ HelperReturned("count_pep8_violations")
    /\ helper.path_whitelist = Some(WhitelistsTable.is_pep8_fine)
    /\ \E i \in DOMAIN helper.python_file_paths :
          helper.python_file_paths[i] = MigrationPath
    /\ helper.contents[MigrationPath] # CleanFile
    /\ \E i \in DOMAIN helper.validatable_paths :
          helper.validatable_paths[i] = PlainPath
    /\ Len(helper.validatable_paths) < Len(helper.python_file_paths)
    /\ helper.total_errors > 0

(***************************************************************************)
(* C16: get_mccabe_violations_for_file returns one entry for every code    *)
(* unit whose complexity is at least max_complexity and none for a unit    *)
(* below it; a unit whose name starts with 'If ' is reported under the     *)
(* label 'if __name__ == "__main__"', every other unit under its name.     *)
(***************************************************************************)
C16_ComplexUnits ==
    HelperReturned("get_mccabe_violations_for_file") =>
        LET Reported(graph) == ~(graph.complexity < helper.max_complexity)
            reported == SelectSeq(helper.graphs, Reported)
            Label(name) ==
                IF Len(name) >= 3 /\ name[1] = "I" /\ name[2] = "f" /\ name[3] = " "
                THEN <<"i", "f", " ", "_", "_", "n", "a", "m", "e", "_", "_", " ", "=", "=", " ", "\"", "_", "_", "m", "a", "i", "n", "_", "_", "\"">>
                ELSE name
        IN  helper.violations =
                [i \in DOMAIN reported |-> Label(reported[i].entity)]

\* A top-level if exactly at the threshold is reported under the label and a
\* function below the threshold is left out.
C16_Witness ==
    /\ HelperReturned("get_mccabe_violations_for_file")
    /\ Len(helper.graphs) = 2
    /\ \E i \in DOMAIN helper.graphs :
          /\ helper.graphs[i].complexity = helper.max_complexity
          /\ StartsWith(helper.graphs[i].entity, IfPrefix)
    /\ \E i \in DOMAIN helper.graphs :
          helper.graphs[i].complexity < helper.max_complexity
    /\ helper.violations = <<MainGuardLabel>>

(***************************************************************************)
(* C17: no construction and no validate() call changes the class's tables  *)
(* (default settings, blacklists, whitelists, error and warning catalogs), *)
(* and a rule run for one validator object receives, for every setting,    *)
(* the default or a value given to that same object, never a value given   *)
(* only to another object.                                                 *)
(***************************************************************************)
TablesUnchanged ==
    /\ class_attributes' = class_attributes
    /\ error_validator_groups' = error_validator_groups
    /\ warning_validator_groups' = warning_validator_groups

OwnSettingsOnly ==
    \A i \in DOMAIN calls :
        LET received == calls[i].arguments
        IN  \A k \in (DOMAIN received) \ ReservedKeys :
                \/ <<k, received[k]>> \in supplied[frame.self]
                \/ k \in DOMAIN _default_settings
                   /\ received[k] = _default_settings[k]

C17_TablesAndObjectsApart ==
    /\ [](class_attributes._default_settings = _default_settings)
    /\ [](class_attributes.blacklists = BlacklistsTable)
    /\ [](class_attributes.whitelists = WhitelistsTable)
    /\ [][TablesUnchanged]_vars
    /\ []OwnSettingsOnly

\* Object 1 was given max_complexity=9 in a validate() call; a rule then runs
\* for object 2, which was given nothing for it, and receives the default.
C17_Witness ==
    /\ <<"max_complexity", "9">> \in supplied[1]
    /\ ncalls = 2
    /\ frame.self = 2
    /\ \A pair \in supplied[2] : pair[1] # "max_complexity"
    /\ calls # <<>>
    /\ calls[Len(calls)].arguments["max_complexity"] = "7"

(***************************************************************************)
(* C18: in every validate() call the rules receive an original_repo entry  *)
(* exactly when that call was given an original_repo handle, and then that *)
(* handle; also after an earlier call on the same object that supplied     *)
(* another handle, and for every handle that is not None.                  *)
(***************************************************************************)
C18_OriginalRepoOfThisCall ==
    \A i \in DOMAIN calls :
        LET received == calls[i].arguments
        IN  /\ ("original_repo" \in DOMAIN received) <=> (frame.original_repo # None)
            /\ "original_repo" \in DOMAIN received =>
                  received["original_repo"] = frame.original_repo

(***************************************************************************)
(* C19: a validate() call whose rule invocations all return comes to an    *)
(* end and returns a list (a call one of whose rules raises ends with that *)
(* exception); in one run no error rule and no warning rule is invoked     *)
(* twice, and the invocations are never more than the rules of the         *)
(* catalog.                                                                *)
(***************************************************************************)
Running == frame.pc \in {"error_groups", "run_group", "warning_groups"}

RaisedByRule ==
    /\ frame.pc = "raised"
    /\ calls # <<>>
    /\ calls[Len(calls)].outcome = Raise

ReturnedList ==
    /\ Returned
    /\ result = <<frame.errors>>
    /\ \A i \in DOMAIN result[1] : IsViolation(result[1][i])

InvokedAtMostOnce ==
    \A i, j \in DOMAIN calls :
        (calls[i].kind = calls[j].kind /\ calls[i].validator = calls[j].validator)
            => i = j

RuleCount ==
    LET groups == 1..Len(error_validator_groups)
    IN  Len(Flatten([g \in groups |-> Declared("error", g)]))
        + Len(Flatten([g \in groups |-> Declared("warning", g)]))

C19_TerminatesWithinCatalog ==
    /\ Running ~> (ReturnedList \/ RaisedByRule)
    /\ [](Returned => ReturnedList)
    /\ []InvokedAtMostOnce
    /\ [](Len(calls) <= RuleCount)

\* A call has returned after the last group failed: every error rule and
\* every warning rule of the catalog open to the sweep was invoked.
C19_Witness ==
    /\ ReturnedList
    /\ FailedGroups = {Len(error_validator_groups)}
    /\ \E i \in DOMAIN calls : calls[i].kind = "warning"
    /\ Len(calls) > Len(error_validator_groups)
    /\ result[1] # <<>>

====
